---------------------------- MODULE Spec2Model ----------------------------
(***************************************************************************)
(* Model of mailerLiteSync.py: the daily job that selects contacts of      *)
(* completed shows from the MongoDB collections, uploads them to           *)
(* MailerLite in batches, marks the accepted ones as exported and moves    *)
(* the rejected ones to the "failed" collection.                           *)
(*                                                                         *)
(* Strings are sequences of one-character strings, so that lower(), the    *)
(* e-mail regular expression, the ordinal-suffix substitution and strptime *)
(* are computed as the code computes them.                                 *)
(***************************************************************************)
EXTENDS Integers, Sequences, FiniteSets, TLC

(***************************************************************************)
(* Characters and strings                                                  *)
(***************************************************************************)
Digits == {"0", "1", "2", "3", "4", "5", "6", "7", "8", "9"}

DigitVal ==
  ("0" :> 0) @@ ("1" :> 1) @@ ("2" :> 2) @@ ("3" :> 3) @@ ("4" :> 4) @@
  ("5" :> 5) @@ ("6" :> 6) @@ ("7" :> 7) @@ ("8" :> 8) @@ ("9" :> 9)

DigitChar == <<"0", "1", "2", "3", "4", "5", "6", "7", "8", "9">>

UpperToLower ==
  ("A" :> "a") @@ ("B" :> "b") @@ ("C" :> "c") @@ ("D" :> "d") @@
  ("E" :> "e") @@ ("F" :> "f") @@ ("G" :> "g") @@ ("H" :> "h") @@
  ("I" :> "i") @@ ("J" :> "j") @@ ("K" :> "k") @@ ("L" :> "l") @@
  ("M" :> "m") @@ ("N" :> "n") @@ ("O" :> "o") @@ ("P" :> "p") @@
  ("Q" :> "q") @@ ("R" :> "r") @@ ("S" :> "s") @@ ("T" :> "t") @@
  ("U" :> "u") @@ ("V" :> "v") @@ ("W" :> "w") @@ ("X" :> "x") @@
  ("Y" :> "y") @@ ("Z" :> "z")

Uppers == DOMAIN UpperToLower

Lowers == {UpperToLower[c] : c \in Uppers}

Whitespace == {" ", "\t", "\n"}

\* str.lower() on one character and on a string
LowerChar(c) == IF c \in Uppers THEN UpperToLower[c] ELSE c

Lower(s) == [i \in 1..Len(s) |-> LowerChar(s[i])]

\* the elements of a sequence
Range(s) == { s[i] : i \in 1..Len(s) }

\* s[i..j] (1-based, inclusive); the empty string when j < i
Slice(s, i, j) == IF j < i THEN <<>> ELSE SubSeq(s, i, j)

\* a field that is absent from the document (dict.get gives None)
Missing == <<"<missing>">>

EmptyStr == <<>>

(***************************************************************************)
(* is_valid_email                                                          *)
(***************************************************************************)
LocalChars == Uppers \cup Lowers \cup Digits \cup {"_", ".", "+", "-"}

DomainChars == Uppers \cup Lowers \cup Digits \cup {"-"}

TldChars == Uppers \cup Lowers \cup Digits \cup {"-", "."}

AllIn(s, i, j, set) == i <= j /\ \A k \in i..j : s[k] \in set

\* re.match(r'^[a-zA-Z0-9_.+-]+@[a-zA-Z0-9-]+\.[a-zA-Z0-9-.]+$', email):
\* '$' also matches just before one trailing newline
EmailRegexMatches(s) ==
  \E n \in {Len(s)} \cup (IF Len(s) > 0 /\ s[Len(s)] = "\n" THEN {Len(s) - 1} ELSE {}) :
    \E a \in 1..n : \E d \in 1..n :
      /\ s[a] = "@"
      /\ s[d] = "."
      /\ a < d
      /\ AllIn(s, 1, a - 1, LocalChars)
      /\ AllIn(s, a + 1, d - 1, DomainChars)
      /\ AllIn(s, d + 1, n, TldChars)

SentinelsLower == {EmptyStr, <<"n", "o", "n", "e">>, <<"n", "u", "l", "l">>}

is_valid_email(email) ==
  IF email = Missing \/ email = EmptyStr \/ Lower(email) \in SentinelsLower
  THEN FALSE
  ELSE EmailRegexMatches(email)

(***************************************************************************)
(* parse_show_date: datetime.strptime over the format lists of the code    *)
(***************************************************************************)
MonthNames ==
  << <<"j", "a", "n", "u", "a", "r", "y">>,
     <<"f", "e", "b", "r", "u", "a", "r", "y">>,
     <<"m", "a", "r", "c", "h">>,
     <<"a", "p", "r", "i", "l">>,
     <<"m", "a", "y">>,
     <<"j", "u", "n", "e">>,
     <<"j", "u", "l", "y">>,
     <<"a", "u", "g", "u", "s", "t">>,
     <<"s", "e", "p", "t", "e", "m", "b", "e", "r">>,
     <<"o", "c", "t", "o", "b", "e", "r">>,
     <<"n", "o", "v", "e", "m", "b", "e", "r">>,
     <<"d", "e", "c", "e", "m", "b", "e", "r">> >>

WeekdayNames ==
  { <<"m", "o", "n", "d", "a", "y">>,
    <<"t", "u", "e", "s", "d", "a", "y">>,
    <<"w", "e", "d", "n", "e", "s", "d", "a", "y">>,
    <<"t", "h", "u", "r", "s", "d", "a", "y">>,
    <<"f", "r", "i", "d", "a", "y">>,
    <<"s", "a", "t", "u", "r", "d", "a", "y">>,
    <<"s", "u", "n", "d", "a", "y">> }

AmPm == {<<"a", "m">>, <<"p", "m">>}

WordChars == Uppers \cup Lowers \cup Digits \cup {"_"}

DigitsAt(s, p, n) == p + n - 1 <= Len(s) /\ \A k \in p..(p + n - 1) : s[k] \in Digits

RECURSIVE NumVal(_, _, _)
NumVal(s, p, n) ==
  IF n = 0 THEN 0 ELSE 10 * NumVal(s, p, n - 1) + DigitVal[s[p + n - 1]]

\* The alternatives of a numeric directive of strptime, each <<digits, lowest,
\* highest>>: %m is 1[0-2]|0[1-9]|[1-9], %d is 3[0-1]|[1-2]\d|0[1-9]|[1-9],
\* %H is 2[0-3]|[0-1]\d|\d, %I is 1[0-2]|0[1-9]|[1-9], %M is [0-5]\d|\d,
\* %Y is \d\d\d\d
NumericAlternatives(tok) ==
  CASE tok = "%Y" -> {<<4, 0, 9999>>}
    [] tok = "%m" -> {<<2, 1, 12>>, <<1, 1, 9>>}
    [] tok = "%d" -> {<<2, 1, 31>>, <<1, 1, 9>>}
    [] tok = "%H" -> {<<2, 0, 23>>, <<1, 0, 9>>}
    [] tok = "%I" -> {<<2, 1, 12>>, <<1, 1, 9>>}
    [] tok = "%M" -> {<<2, 0, 59>>, <<1, 0, 9>>}
    [] OTHER -> {}

\* The values a numeric directive can take at position p, as <<value, next position>>
NumericAt(tok, s, p) ==
  { <<NumVal(s, p, a[1]), p + a[1]>> :
      a \in { b \in NumericAlternatives(tok) :
                /\ DigitsAt(s, p, b[1])
                /\ NumVal(s, p, b[1]) >= b[2]
                /\ NumVal(s, p, b[1]) <= b[3] } }
  \cup
  \* %d also accepts a blank followed by one digit 1-9
  (IF tok = "%d" /\ p + 1 <= Len(s) /\ s[p] = " " /\ s[p + 1] \in Digits \ {"0"}
   THEN {<<DigitVal[s[p + 1]], p + 2>>} ELSE {})

\* The name (lower case: the expression is compiled IGNORECASE) at position p
NameAt(s, p, name) ==
  /\ p + Len(name) - 1 <= Len(s)
  /\ Lower(Slice(s, p, p + Len(name) - 1)) = name

\* One element of a format against the string: the matching states that follow
\* the state st = [pos, y, m, d]
MatchToken(tok, s, st) ==
  CASE tok \in {"%H", "%I", "%M"} ->
         { [st EXCEPT !.pos = v[2]] : v \in NumericAt(tok, s, st.pos) }
    [] tok = "%Y" ->
         { [st EXCEPT !.pos = v[2], !.y = v[1]] : v \in NumericAt(tok, s, st.pos) }
    [] tok = "%m" ->
         { [st EXCEPT !.pos = v[2], !.m = v[1]] : v \in NumericAt(tok, s, st.pos) }
    [] tok = "%d" ->
         { [st EXCEPT !.pos = v[2], !.d = v[1]] : v \in NumericAt(tok, s, st.pos) }
    [] tok = "%p" ->
         { [st EXCEPT !.pos = st.pos + 2] : w \in { x \in AmPm : NameAt(s, st.pos, x) } }
    [] tok = "%B" ->
         { [st EXCEPT !.pos = st.pos + Len(MonthNames[i]), !.m = i] :
             i \in { j \in 1..12 : NameAt(s, st.pos, MonthNames[j]) } }
    [] tok = "%A" ->
         { [st EXCEPT !.pos = st.pos + Len(w)] :
             w \in { x \in WeekdayNames : NameAt(s, st.pos, x) } }
    [] tok = " " ->
         \* white space in a format is \s+
         { [st EXCEPT !.pos = q] :
             q \in { r \in (st.pos + 1)..(Len(s) + 1) :
                       \A k \in st.pos..(r - 1) : s[k] \in Whitespace } }
    [] OTHER ->
         IF st.pos <= Len(s) /\ LowerChar(s[st.pos]) = LowerChar(tok)
         THEN { [st EXCEPT !.pos = st.pos + 1] } ELSE {}

RECURSIVE MatchFormat(_, _, _, _)
MatchFormat(fmt, k, s, states) ==
  IF k > Len(fmt) THEN states
  ELSE MatchFormat(fmt, k + 1, s,
                   UNION { MatchToken(fmt[k], s, st) : st \in states })

IsLeap(y) == (y % 4 = 0 /\ y % 100 # 0) \/ y % 400 = 0

DaysInMonth(y, m) ==
  IF m = 2 THEN (IF IsLeap(y) THEN 29 ELSE 28)
  ELSE IF m \in {4, 6, 9, 11} THEN 30 ELSE 31

NoDate == [y |-> 0, m |-> 0, d |-> 0]

\* datetime.strptime(s, fmt).date(), NoDate for ValueError: the expression must
\* match, nothing may remain unconverted, and the date must exist
strptime(s, fmt) ==
  LET full == { st \in MatchFormat(fmt, 1, s, {[pos |-> 1, y |-> 1900, m |-> 1, d |-> 1]}) :
                  /\ st.pos = Len(s) + 1
                  /\ st.y >= 1
                  /\ st.d <= DaysInMonth(st.y, st.m) }
  IN IF full = {} THEN NoDate
     ELSE LET st == CHOOSE x \in full : TRUE
          IN [y |-> st.y, m |-> st.m, d |-> st.d]

FormatsWithYear ==
  << <<"%Y", "-", "%m", "-", "%d", " ", "%I", ":", "%M", " ", "%p">>,
     <<"%Y", "-", "%m", "-", "%d", " ", "%H", ":", "%M">>,
     <<"%Y", "-", "%m", "-", "%d">>,
     <<"%m", "/", "%d", "/", "%Y">>,
     <<"%B", " ", "%d", ",", " ", "%Y", " ", "%I", ":", "%M", " ", "%p">> >>

FormatsWithoutYear ==
  << <<"%A", " ", "%B", " ", "%d", " ", "%I", "%p", " ", "%Y">>,
     <<"%A", " ", "%B", " ", "%d", " ", "%I", ":", "%M", "%p", " ", "%Y">> >>

OrdinalSuffixes == {<<"s", "t">>, <<"n", "d">>, <<"r", "d">>, <<"t", "h">>}

\* re.sub(r'(\d)(st|nd|rd|th)\b', r'\1', s), scanning from position i
RECURSIVE StripOrdinals(_, _)
StripOrdinals(s, i) ==
  IF i > Len(s) THEN <<>>
  ELSE IF /\ s[i] \in Digits
          /\ i + 2 <= Len(s)
          /\ Slice(s, i + 1, i + 2) \in OrdinalSuffixes
          /\ (i + 3 > Len(s) \/ s[i + 3] \notin WordChars)
       THEN <<s[i]>> \o StripOrdinals(s, i + 3)
       ELSE <<s[i]>> \o StripOrdinals(s, i + 1)

\* str(year) for a four-digit year
YearString(y) ==
  << DigitChar[((y \div 1000) % 10) + 1], DigitChar[((y \div 100) % 10) + 1],
     DigitChar[((y \div 10) % 10) + 1], DigitChar[(y % 10) + 1] >>

RECURSIVE FirstParsed(_, _, _)
FirstParsed(s, fmts, k) ==
  IF k > Len(fmts) THEN NoDate
  ELSE IF strptime(s, fmts[k]) # NoDate THEN strptime(s, fmts[k])
       ELSE FirstParsed(s, fmts, k + 1)

\* parse_show_date(show_date_str) when the current year is current_year; NoDate
\* stands for None
parse_show_date(show_date_str, current_year) ==
  IF show_date_str = Missing THEN NoDate
  ELSE IF FirstParsed(show_date_str, FormatsWithYear, 1) # NoDate
       THEN FirstParsed(show_date_str, FormatsWithYear, 1)
       ELSE FirstParsed(StripOrdinals(show_date_str, 1) \o <<" ">> \o YearString(current_year),
                        FormatsWithoutYear, 1)

\* date < date
DateBefore(a, b) ==
  \/ a.y < b.y
  \/ a.y = b.y /\ a.m < b.m
  \/ a.y = b.y /\ a.m = b.m /\ a.d < b.d

(***************************************************************************)
(* Configuration and sample data                                           *)
(***************************************************************************)
\* config["MONGO_COLLECTIONS"]: the source collections, in configuration order
MONGO_COLLECTIONS == <<"c1", "c2">>

\* GROUPS: venue name -> MailerLite group id, in the order of the literal
GROUPS ==
  << [name |-> <<"t", "o", "w", "n", "h", "o", "u", "s", "e">>, id |-> "143572270449690387"],
     [name |-> <<"s", "t", "o", "w", "a", "w", "a", "y">>, id |-> "143572260771333843"],
     [name |-> <<"c", "i", "t", "i", "z", "e", "n">>, id |-> "143572251965392675"],
     [name |-> <<"c", "h", "u", "r", "c", "h">>, id |-> "143572232163034114"],
     [name |-> <<"p", "a", "l", "a", "c", "e">>, id |-> "143571926962407099"],
     [name |-> <<"b", "l", "i", "n", "d", " ", "b", "a", "r", "b", "e", "r", " ", "f", "u", "l", "t", "o", "n", " ", "m", "a", "r", "k", "e", "t">>,
      id |-> "148048384759956607"],
     [name |-> <<"u", "n", "c", "a", "t", "e", "g", "o", "r", "i", "z", "e", "d">>, id |-> "143572290783675542"] >>

Uncategorized == <<"u", "n", "c", "a", "t", "e", "g", "o", "r", "i", "z", "e", "d">>

\* Sample strings
EmailA == <<"a", "@", "b", ".", "c", "o">>
EmailB == <<"d", "@", "e", ".", "f", "r">>
EmailNotAnEmail == <<"n", "o", "t", "-", "a", "n", "-", "e", "m", "a", "i", "l">>
EmailNoneLower == <<"n", "o", "n", "e">>
EmailNoneCapital == <<"N", "o", "n", "e">>
DatePast == <<"0", "1", "/", "1", "5", "/", "2", "0", "2", "3">>
DateIso == <<"2", "0", "2", "5", "-", "0", "6", "-", "0", "9", " ", "1", "9", ":", "3", "0">>
DateToday == <<"2", "0", "2", "5", "-", "0", "6", "-", "1", "0">>
DateFuture == <<"F", "r", "i", "d", "a", "y", " ", "J", "u", "n", "e", " ", "1", "3", "t", "h", " ", "7", "P", "M">>
DateUnparseable == <<"n", "o", "n", "e">>
VenueTownhouse == <<"T", "o", "w", "n", "h", "o", "u", "s", "e">>
VenuePalace == <<"p", "a", "l", "a", "c", "e">>
VenueUnknown == <<"B", "a", "s", "e", "m", "e", "n", "t">>

\* date.today() of the runs
TodayPool == { [y |-> 2025, m |-> 6, d |-> 10] }

\* added_to_mailerlite: the field is absent, False or True
AddedStates == {"unset", "false", "true"}

\* parse_show_date of the sample show dates in the years of TodayPool, computed
\* once; ShowDateParsed is parse_show_date read from that table
ShowDateSamples == {DatePast, DateIso, DateToday, DateFuture, DateUnparseable, EmptyStr}

ParsedShowDates ==
  [ s \in ShowDateSamples |->
      [ y \in { t.y : t \in TodayPool } |-> parse_show_date(s, y) ] ]

ShowDateParsed(show_date_str, current_year) ==
  IF show_date_str \in ShowDateSamples /\ current_year \in { t.y : t \in TodayPool }
  THEN ParsedShowDates[show_date_str][current_year]
  ELSE parse_show_date(show_date_str, current_year)

(***************************************************************************)
(* Bounds                                                                  *)
(***************************************************************************)
\* documents in the source collections
MaxRecords == 2
\* runs of main() in a behaviour
MaxRuns == 2
\* requests per batch (range(0, len(requests_list), 50) and [i:i+50] in the
\* code; scaled down so that a batch boundary is reached)
BatchSize == 2
\* documents in the specification of the transformer and the uploader
MaxUploads == 3

\* the longest list of contacts convert_to_mailerlite_format is called with on its own
MaxConverted == 3

\* The pools the initial documents are drawn from
PipelinePool ==
  [ emails |-> {EmailA, EmailB, EmailNotAnEmail},
    dates  |-> {DatePast, DateUnparseable},
    venues |-> {VenueTownhouse},
    added  |-> {"unset", "true"} ]

\* --limit of the runs: <<>> is None (argparse default), <<n>> is n
PipelineLimits == {<<>>, <<1>>}

\* The pools of the specification of get_contacts_to_process alone
FilterPool ==
  [ emails |-> {EmailA, EmailNotAnEmail, EmailNoneLower, EmailNoneCapital, Missing},
    dates  |-> {DatePast, DateToday, DateFuture, DateUnparseable, Missing},
    venues |-> {VenueTownhouse},
    added  |-> AddedStates ]

FilterLimits == {<<>>, <<0>>, <<1>>}

\* The pools of the specification of the transformer and the uploader: every
\* document is one that get_contacts_to_process selects
UploadPool ==
  [ emails |-> {EmailA, EmailB},
    dates  |-> {DatePast},
    venues |-> {VenueTownhouse, VenueUnknown},
    added  |-> {"unset"} ]

DocShapes(pool) ==
  [ email : pool.emails, show_date : pool.dates, venue : pool.venues, added : pool.added ]

SeqsUpTo(S, n) == UNION { [1..k -> S] : k \in 0..n }

\* Documents get their _id in insertion order; mailerlite_added_date is 0 when
\* the field is absent and the number of the run that set it otherwise
WithIds(shapes, offset) ==
  [ i \in 1..Len(shapes) |->
      [ id |-> offset + i, email |-> shapes[i].email, show_date |-> shapes[i].show_date,
        venue |-> shapes[i].venue, added |-> shapes[i].added,
        mailerlite_added_date |-> 0 ] ]

\* The databases with at most n documents over the two source collections
Databases(pool, n) ==
  UNION { { [ c \in {"c1", "c2"} |->
                IF c = "c1" THEN WithIds(p[1], 0) ELSE WithIds(p[2], Len(p[1])) ] :
              p \in [1..k[1] -> DocShapes(pool)] \X [1..k[2] -> DocShapes(pool)] } :
          k \in { q \in (0..n) \X (0..n) : q[1] + q[2] <= n } }

(***************************************************************************)
(* State                                                                   *)
(***************************************************************************)
VARIABLES
  db,                  \* source collection name -> its documents, in natural order
  failed_collection,   \* the documents of db["failed"]
  today,               \* date.today()
  pc,                  \* position of main()
  run,                 \* number of runs of main() started
  limit,               \* args.limit of the run
  contacts,            \* main(): contacts
  mailerlite_data,     \* main(): mailerlite_data, as <<venue, contact arrays>> in key order
  invalid_emails,      \* main(): invalid_emails
  requests_list,       \* batch_add_contacts_to_mailerlite: requests_list (with processed_emails)
  batch_start,         \* batch_add_contacts_to_mailerlite: i of the batch loop
  successful_emails,   \* successful_emails
  failed_emails,       \* failed_emails
  successful_by_group, \* successful_by_group
  email_to_contact,    \* handle_failed_contacts: the entries of email_to_contact not yet handled
  queried,             \* history: the collections get_contacts_to_process queried in this run
  batches_sent,        \* history: the batches posted in this run: document ids, e-mails,
                       \* kind of outcome, number and codes of the per-item results tracked
  item_ok,             \* history: ids of the documents whose own item was answered 200/201, this run
  ok_before,           \* history: the same, over the earlier runs
  db_at_start,         \* history: db when the run started
  db_failures,         \* history: the datastore operations that raised, over all runs
  db_writes,           \* history: datastore writes issued in this run
  insert_failed,       \* history: ids of the contacts whose insert_one raised, this run
  inserted,            \* history: ids of the contacts inserted into "failed", this run
  delete_issued,       \* history: <<collection, email>> of the delete_one calls of this run
  removed,             \* history: the documents delete_one removed, over all runs
  prev_exported,       \* history: the run before selected contacts and left all of them exported
  answers_malformed,   \* history: some batch so far was answered 200 with a list of per-item
                       \* results of another length than the batch, or raised after tracking some
  client_log,          \* history: the MongoClient(...) and client.close() calls of this run,
                       \* each <<function, "open">> or <<function, "close">>
  call,                \* the function called on its own and its arguments (NoCall: none)
  returned             \* what that call returned

vars ==
  << db, failed_collection, today, pc, run, limit, contacts, mailerlite_data,
     invalid_emails, requests_list, batch_start, successful_emails, failed_emails,
     successful_by_group, email_to_contact, queried, batches_sent, item_ok, ok_before,
     db_at_start, db_failures, db_writes, insert_failed, inserted, delete_issued,
     removed, prev_exported, answers_malformed, client_log, call, returned >>

\* client = MongoClient(MONGO_URI), the first statement of the try block of fn
OpenClient(log, fn) == Append(log, <<fn, "open">>)

\* A variant of the finally clause that is skipped when the try block raised
CloseUnlessRaised(log, fn, raised) ==
  IF raised THEN log ELSE Append(log, <<fn, "close">>)

\* finally: if 'client' in locals(): client.close() -- runs whether or not the try
\* block raised
CloseInFinally(log, fn, raised) == Append(log, <<fn, "close">>)

\* no function was called on its own
NoCall == [fn |-> "none"]

\* what a run of main() starts from
RunLocalsReset ==
  /\ mailerlite_data' = <<>>
  /\ invalid_emails' = <<>>
  /\ requests_list' = <<>>
  /\ batch_start' = 0
  /\ successful_emails' = <<>>
  /\ failed_emails' = <<>>
  /\ successful_by_group' = <<>>
  /\ email_to_contact' = <<>>

InitWith(pool) ==
  /\ db \in Databases(pool, MaxRecords)
  /\ failed_collection = {}
  /\ today \in TodayPool
  /\ pc = "idle"
  /\ run = 0
  /\ limit = <<>>
  /\ contacts = <<>>
  /\ mailerlite_data = <<>>
  /\ invalid_emails = <<>>
  /\ requests_list = <<>>
  /\ batch_start = 0
  /\ successful_emails = <<>>
  /\ failed_emails = <<>>
  /\ successful_by_group = <<>>
  /\ email_to_contact = <<>>
  /\ queried = {}
  /\ batches_sent = <<>>
  /\ item_ok = {}
  /\ ok_before = {}
  /\ db_at_start = db
  /\ db_failures = {}
  /\ db_writes = 0
  /\ insert_failed = {}
  /\ inserted = {}
  /\ delete_issued = {}
  /\ removed = {}
  /\ prev_exported = FALSE
  /\ answers_malformed = FALSE
  /\ client_log = <<>>
  /\ call = NoCall
  /\ returned = <<>>

(***************************************************************************)
(* get_contacts_to_process                                                 *)
(***************************************************************************)
\* A variant of the query without its mailerlite_added clause: it also matches the
\* documents already marked as exported
QueryMatchesAnyState(doc) ==
  /\ doc.email # Missing
  /\ doc.email # EmptyStr
  /\ doc.email \notin {<<"n", "o", "n", "e">>, <<"n", "u", "l", "l">>}

\* {"$or": [{"added_to_mailerlite": False}, {"added_to_mailerlite": {"$exists": False}}],
\*  "email": {"$exists": True, "$ne": "", "$nin": [None, "none", "null"]}}
QueryMatches(doc) ==
  /\ doc.added \in {"false", "unset"}
  /\ doc.email # Missing
  /\ doc.email # EmptyStr
  /\ doc.email \notin {<<"n", "o", "n", "e">>, <<"n", "u", "l", "l">>}

\* collection.find(query)
Find(docs) == SelectSeq(docs, QueryMatches)

\* if limit and len(all_valid_contacts) >= limit
LimitReached(lim, acc) == lim # <<>> /\ lim[1] # 0 /\ Len(acc) >= lim[1]

\* contact.get('show_date', '')
ShowDateOf(doc) == IF doc.show_date = Missing THEN EmptyStr ELSE doc.show_date

\* A variant of the date test with show_date <= today: it also keeps the shows of
\* today
CompletedShowOrToday(doc, day) ==
  LET show_date == ShowDateParsed(ShowDateOf(doc), day.y)
  IN show_date # NoDate /\ (DateBefore(show_date, day) \/ show_date = day)

\* show_date and show_date < today
CompletedShow(doc, day) ==
  LET show_date == ShowDateParsed(ShowDateOf(doc), day.y)
  IN show_date # NoDate /\ DateBefore(show_date, day)

\* the contact appended to all_valid_contacts: the document with _collection_source
AsContact(doc, cname) ==
  [ id |-> doc.id, email |-> doc.email, show_date |-> doc.show_date, venue |-> doc.venue,
    added |-> doc.added, mailerlite_added_date |-> doc.mailerlite_added_date,
    source |-> cname ]

\* for contact in contacts: ... (the date filter of one collection)
RECURSIVE FilterByDate(_, _, _, _, _, _)
FilterByDate(found, k, cname, acc, lim, day) ==
  IF k > Len(found) \/ LimitReached(lim, acc) THEN acc
  ELSE FilterByDate(found, k + 1, cname,
                    IF CompletedShow(found[k], day)
                    THEN Append(acc, AsContact(found[k], cname)) ELSE acc,
                    lim, day)

\* for collection_name in MONGO_COLLECTIONS: ... ; the result is
\* [contacts |-> all_valid_contacts, queried |-> the collections a find was issued on]
RECURSIVE QueryCollections(_, _, _, _, _, _)
QueryCollections(database, k, acc, asked, lim, day) ==
  IF k > Len(MONGO_COLLECTIONS) \/ LimitReached(lim, acc)
  THEN [contacts |-> acc, queried |-> asked]
  ELSE QueryCollections(database, k + 1,
                        FilterByDate(Find(database[MONGO_COLLECTIONS[k]]), 1,
                                     MONGO_COLLECTIONS[k], acc, lim, day),
                        asked \cup {MONGO_COLLECTIONS[k]}, lim, day)

\* get_contacts_to_process(limit) when the find on the collection number fail_at
\* raises (0: no find raises): the except clause returns []
get_contacts_to_process(database, lim, day, fail_at) ==
  LET all == QueryCollections(database, 1, <<>>, {}, lim, day)
  IN IF fail_at = 0 THEN all
     ELSE [ contacts |-> <<>>,
            queried |-> { MONGO_COLLECTIONS[j] : j \in 1..fail_at } ]

\* main(): a run starts, steps 1: contacts = get_contacts_to_process(limit=args.limit);
\* if not contacts: return
GetContacts(lim) ==
  /\ pc \in {"idle", "done"}
  /\ run < MaxRuns
  /\ \E fail_at \in 0..Len(MONGO_COLLECTIONS) :
       LET result == get_contacts_to_process(db, lim, today, fail_at) IN
       /\ fail_at # 0 =>
            MONGO_COLLECTIONS[fail_at] \in
              QueryCollections(db, 1, <<>>, {}, lim, today).queried
       /\ RunLocalsReset
       /\ contacts' = result.contacts
       /\ queried' = result.queried
       /\ db_failures' = IF fail_at = 0 THEN db_failures ELSE db_failures \cup {"find"}
       /\ client_log' = CloseInFinally(OpenClient(<<>>, "get_contacts_to_process"),
                                       "get_contacts_to_process", fail_at # 0)
       /\ pc' = IF result.contacts = <<>> THEN "done" ELSE "convert"
  /\ run' = run + 1
  /\ limit' = lim
  /\ ok_before' = ok_before \cup item_ok
  /\ item_ok' = {}
  /\ batches_sent' = <<>>
  /\ db_at_start' = db
  /\ db_writes' = 0
  /\ insert_failed' = {}
  /\ inserted' = {}
  /\ delete_issued' = {}
  /\ prev_exported' =
       /\ contacts # <<>>
       /\ \A i \in 1..Len(contacts) :
            \E j \in 1..Len(db[contacts[i].source]) :
              /\ db[contacts[i].source][j].id = contacts[i].id
              /\ db[contacts[i].source][j].added = "true"
  /\ UNCHANGED <<db, failed_collection, today, removed, answers_malformed, call, returned>>

(***************************************************************************)
(* convert_to_mailerlite_format                                            *)
(***************************************************************************)
\* contact.get('venue', 'uncategorized'): the key of mailerlite_data
VenueKey(contact) == IF contact.venue = Missing THEN Uncategorized ELSE contact.venue

\* contact_array: [venue, date, email, ...]; id is history (the document it was built from)
ContactArray(contact) ==
  [ venue |-> IF contact.venue = Missing THEN EmptyStr ELSE contact.venue,
    email |-> contact.email,
    id    |-> contact.id ]

\* A variant that starts the venue's list again: mailerlite_data[venue] = [contact_array]
AppendToVenueAnew(data, venue, item) ==
  IF \E i \in 1..Len(data) : data[i].venue = venue
  THEN [ i \in 1..Len(data) |->
           IF data[i].venue = venue
           THEN [data[i] EXCEPT !.items = <<item>>] ELSE data[i] ]
  ELSE Append(data, [venue |-> venue, items |-> <<item>>])

\* mailerlite_data[venue].append(contact_array), creating the key when it is new
AppendToVenue(data, venue, item) ==
  IF \E i \in 1..Len(data) : data[i].venue = venue
  THEN [ i \in 1..Len(data) |->
           IF data[i].venue = venue
           THEN [data[i] EXCEPT !.items = Append(@, item)] ELSE data[i] ]
  ELSE Append(data, [venue |-> venue, items |-> <<item>>])

\* convert_to_mailerlite_format(contacts)[k..]: (mailerlite_data, invalid_emails)
RECURSIVE convert_to_mailerlite_format(_, _, _, _)
convert_to_mailerlite_format(cs, k, data, invalid) ==
  IF k > Len(cs) THEN [mailerlite_data |-> data, invalid_emails |-> invalid]
  ELSE IF ~is_valid_email(cs[k].email)
       THEN convert_to_mailerlite_format(cs, k + 1, data, Append(invalid, cs[k].email))
       ELSE convert_to_mailerlite_format(
              cs, k + 1, AppendToVenue(data, VenueKey(cs[k]), ContactArray(cs[k])), invalid)

(***************************************************************************)
(* batch_add_contacts_to_mailerlite                                        *)
(***************************************************************************)
\* GROUPS.get(venue, GROUPS["uncategorized"])
GroupId(venue) ==
  IF \E i \in 1..Len(GROUPS) : GROUPS[i].name = venue
  THEN GROUPS[CHOOSE i \in 1..Len(GROUPS) : GROUPS[i].name = venue].id
  ELSE GROUPS[CHOOSE i \in 1..Len(GROUPS) : GROUPS[i].name = Uncategorized].id

\* next((k for k, v in GROUPS.items() if v == group_id), "unknown")
GroupName(group_id) ==
  IF \E i \in 1..Len(GROUPS) : GROUPS[i].id = group_id
  THEN GROUPS[CHOOSE i \in 1..Len(GROUPS) :
                /\ GROUPS[i].id = group_id
                /\ \A j \in 1..(i - 1) : GROUPS[j].id # group_id].name
  ELSE <<"u", "n", "k", "n", "o", "w", "n">>

\* A variant that looks the venue up as it is written, without lower()
NormalizedVenueAsWritten(item) ==
  IF item.venue = EmptyStr THEN Uncategorized ELSE item.venue

\* venue = (contact[0] or "uncategorized").lower()
NormalizedVenue(item) == Lower(IF item.venue = EmptyStr THEN Uncategorized ELSE item.venue)

\* one entry of requests_list, with the entry of processed_emails (email) beside it
Request(item) ==
  [ email |-> item.email, groups |-> <<GroupId(NormalizedVenue(item))>>, id |-> item.id ]

\* for contact in contacts: ... (invalid e-mails are skipped)
RequestsOfItems(items) ==
  LET valid == SelectSeq(items, LAMBDA it : is_valid_email(it.email))
  IN [ i \in 1..Len(valid) |-> Request(valid[i]) ]

\* for show, contacts in emailsToAdd.items(): ... : requests_list
RECURSIVE BuildRequests(_, _)
BuildRequests(data, k) ==
  IF k > Len(data) THEN <<>>
  ELSE RequestsOfItems(data[k].items) \o BuildRequests(data, k + 1)

\* A variant whose slice includes its end index: requests_list[i:i+50+1]
BatchAtInclusive(reqs, i) ==
  Slice(reqs, i + 1, IF i + BatchSize + 1 < Len(reqs) THEN i + BatchSize + 1 ELSE Len(reqs))

\* requests_list[i:i+50] (i counts from 0)
BatchAt(reqs, i) ==
  Slice(reqs, i + 1, IF i + BatchSize < Len(reqs) THEN i + BatchSize ELSE Len(reqs))

SuccessCodes == {200, 201}

\* successful_by_group[group_name].append(email), creating the key when it is new
AppendToGroup(by_group, name, email) ==
  IF \E i \in 1..Len(by_group) : by_group[i].name = name
  THEN [ i \in 1..Len(by_group) |->
           IF by_group[i].name = name
           THEN [by_group[i] EXCEPT !.emails = Append(@, email)] ELSE by_group[i] ]
  ELSE Append(by_group, [name |-> name, emails |-> <<email>>])

\* A variant that indexes the e-mails by idx alone, without batch_start
RECURSIVE TrackResponsesFromListStart(_, _, _, _, _)
TrackResponsesFromListStart(reqs, i, responses, idx, acc) ==
  IF idx >= Len(responses) THEN acc
  ELSE LET email_idx == idx IN
       TrackResponsesFromListStart(reqs, i, responses, idx + 1,
         IF email_idx < Len(reqs)
         THEN IF responses[idx + 1] \in SuccessCodes
              THEN [ successful |-> Append(acc.successful, reqs[email_idx + 1].email),
                     failed     |-> acc.failed,
                     by_group   |-> AppendToGroup(acc.by_group,
                                      GroupName(reqs[email_idx + 1].groups[1]),
                                      reqs[email_idx + 1].email) ]
              ELSE [acc EXCEPT !.failed = Append(@, reqs[email_idx + 1].email)]
         ELSE acc)

\* for idx, res in enumerate(result['responses']): ... from idx on (idx counts from 0);
\* acc = [successful, failed, by_group]
RECURSIVE TrackResponses(_, _, _, _, _)
TrackResponses(reqs, i, responses, idx, acc) ==
  IF idx >= Len(responses) THEN acc
  ELSE LET email_idx == i + idx IN
       TrackResponses(reqs, i, responses, idx + 1,
         IF email_idx < Len(reqs)
         THEN IF responses[idx + 1] \in SuccessCodes
              THEN [ successful |-> Append(acc.successful, reqs[email_idx + 1].email),
                     failed     |-> acc.failed,
                     by_group   |-> AppendToGroup(acc.by_group,
                                      GroupName(reqs[email_idx + 1].groups[1]),
                                      reqs[email_idx + 1].email) ]
              ELSE [acc EXCEPT !.failed = Append(@, reqs[email_idx + 1].email)]
         ELSE acc)

\* failed_emails.extend(processed_emails[i:i+50])
EmailsOf(reqs) == [ j \in 1..Len(reqs) |-> reqs[j].email ]

\* One pass of "for i in range(0, len(requests_list), 50)". outcome.kind is
\*   "exception"  something in the try block raised: requests.post, response.json(),
\*                result[...], or res.get on an entry of result['responses'] that is
\*                not an object, after the entries outcome.responses were tracked
\*   "http_error" response.status_code != 200
\*   "ok"         status 200, with outcome.responses the codes of result['responses']
ProcessBatch(reqs, i, outcome, acc) ==
  IF outcome.kind = "ok"
  THEN TrackResponses(reqs, i, outcome.responses, 0, acc)
  ELSE IF outcome.kind = "exception"
  THEN [ TrackResponses(reqs, i, outcome.responses, 0, acc)
           EXCEPT !.failed = @ \o EmailsOf(BatchAt(reqs, i)) ]
  ELSE [acc EXCEPT !.failed = @ \o EmailsOf(BatchAt(reqs, i))]

(***************************************************************************)
(* main(): steps 2 and 3                                                   *)
(***************************************************************************)
\* mailerlite_data, invalid_emails = convert_to_mailerlite_format(contacts);
\* if not mailerlite_data: handle the invalid e-mails and return
Convert ==
  /\ pc = "convert"
  /\ LET r == convert_to_mailerlite_format(contacts, 1, <<>>, <<>>) IN
     /\ mailerlite_data' = r.mailerlite_data
     /\ invalid_emails' = r.invalid_emails
     /\ pc' = IF r.mailerlite_data # <<>> THEN "upload_begin"
              ELSE IF r.invalid_emails # <<>> THEN "handle_invalid" ELSE "done"
  /\ UNCHANGED <<db, failed_collection, today, run, limit, contacts, requests_list,
                 batch_start, successful_emails, failed_emails, successful_by_group,
                 email_to_contact, queried, batches_sent, item_ok, ok_before,
                 db_at_start, db_failures, db_writes, insert_failed, inserted,
                 delete_issued, removed, prev_exported,
                 answers_malformed, client_log, call, returned>>

\* batch_add_contacts_to_mailerlite up to the batch loop. "return []" when there is
\* no request makes main()'s three-way unpacking raise: its except clause ends the run
BuildRequestList ==
  /\ pc = "upload_begin"
  /\ requests_list' = BuildRequests(mailerlite_data, 1)
  /\ batch_start' = 0
  /\ successful_emails' = <<>>
  /\ failed_emails' = <<>>
  /\ successful_by_group' = <<>>
  /\ pc' = IF BuildRequests(mailerlite_data, 1) = <<>> THEN "done" ELSE "upload"
  /\ UNCHANGED <<db, failed_collection, today, run, limit, contacts, mailerlite_data,
                 invalid_emails, email_to_contact, queried, batches_sent, item_ok,
                 ok_before, db_at_start, db_failures, db_writes, insert_failed,
                 inserted, delete_issued, removed, prev_exported,
                 answers_malformed, client_log, call, returned>>

\* per-item codes MailerLite answers with
ResponseCodes == {200, 201, 422}

\* What the platform (or the network) can answer to a batch of n requests; the
\* list of per-item results may be shorter or longer than the batch, and the
\* exception may come after some of its entries were tracked
BatchOutcomes(n) ==
  { [kind |-> "http_error", responses |-> <<>>] }
  \cup { [kind |-> "exception", responses |-> r] : r \in SeqsUpTo(ResponseCodes, n) }
  \cup { [kind |-> "ok", responses |-> r] : r \in SeqsUpTo(ResponseCodes, n + 1) }

\* ids of the documents whose own item (same position in the batch) was answered 200/201
AnsweredOk(batch, outcome) ==
  IF outcome.kind = "http_error" THEN {}
  ELSE { batch[j].id : j \in { q \in 1..Len(batch) :
                                 /\ q <= Len(outcome.responses)
                                 /\ outcome.responses[q] \in SuccessCodes } }

\* one pass of the batch loop of batch_add_contacts_to_mailerlite; after the last
\* one the function returns to main()
UploadBatch ==
  /\ pc = "upload"
  /\ \E outcome \in BatchOutcomes(Len(BatchAt(requests_list, batch_start))) :
       LET acc == ProcessBatch(requests_list, batch_start, outcome,
                               [ successful |-> successful_emails,
                                 failed     |-> failed_emails,
                                 by_group   |-> successful_by_group ])
           batch == BatchAt(requests_list, batch_start)
       IN /\ successful_emails' = acc.successful
          /\ failed_emails' = acc.failed
          /\ successful_by_group' = acc.by_group
          /\ batches_sent' = Append(batches_sent,
                                    [ ids    |-> [ j \in 1..Len(batch) |-> batch[j].id ],
                                      emails |-> EmailsOf(batch),
                                      kind   |-> outcome.kind,
                                      tracked |-> Len(outcome.responses),
                                      codes  |-> outcome.responses ])
          /\ item_ok' = item_ok \cup AnsweredOk(batch, outcome)
          /\ answers_malformed' =
               \/ answers_malformed
               \/ outcome.kind = "ok" /\ Len(outcome.responses) # Len(batch)
               \/ outcome.kind = "exception" /\ outcome.responses # <<>>
  /\ batch_start' = batch_start + BatchSize
  /\ pc' = IF batch_start + BatchSize < Len(requests_list) THEN "upload" ELSE "mark"
  /\ UNCHANGED <<db, failed_collection, today, run, limit, contacts, mailerlite_data,
                 invalid_emails, requests_list, email_to_contact, queried, ok_before,
                 db_at_start, db_failures, db_writes, insert_failed, inserted,
                 delete_issued, removed, prev_exported, client_log, call,
                 returned>>

(***************************************************************************)
(* mark_contacts_as_processed                                              *)
(***************************************************************************)
InSeq(x, s) == \E i \in 1..Len(s) : s[i] = x

\* email_to_collection: the e-mails of the contacts that are in successful_emails,
\* each with the _collection_source of the last such contact
EmailToCollection(successful, cs) ==
  { <<cs[i].email, cs[i].source>> :
      i \in { j \in 1..Len(cs) :
                /\ InSeq(cs[j].email, successful)
                /\ \A q \in (j + 1)..Len(cs) : cs[q].email # cs[j].email } }

\* emails_for_this_collection
EmailsForCollection(successful, cs, cname) ==
  { p[1] : p \in { q \in EmailToCollection(successful, cs) : q[2] = cname } }

\* A variant of update_many with the filter {}: it sets the fields on every document
UpdateManyEveryDocument(docs, emails, stamp) ==
  [ i \in 1..Len(docs) |->
      [docs[i] EXCEPT !.added = "true", !.mailerlite_added_date = stamp] ]

\* collection.update_many({"email": {"$in": emails}}, {"$set": {...}})
UpdateMany(docs, emails, stamp) ==
  [ i \in 1..Len(docs) |->
      IF docs[i].email \in emails
      THEN [docs[i] EXCEPT !.added = "true", !.mailerlite_added_date = stamp]
      ELSE docs[i] ]

\* the collections mark_contacts_as_processed issues an update_many on
CollectionsToUpdate(successful, cs) ==
  { k \in 1..Len(MONGO_COLLECTIONS) :
      EmailsForCollection(successful, cs, MONGO_COLLECTIONS[k]) # {} }

\* The database after mark_contacts_as_processed(successful, cs) when the
\* update_many on the collection number fail_at raises (0: none raises): the
\* except clause ends the loop over the collections
mark_contacts_as_processed(database, successful, cs, stamp, fail_at) ==
  [ c \in DOMAIN database |->
      LET k == CHOOSE j \in 1..Len(MONGO_COLLECTIONS) : MONGO_COLLECTIONS[j] = c IN
      IF (fail_at = 0 \/ k < fail_at) /\ k \in CollectionsToUpdate(successful, cs)
      THEN UpdateMany(database[c], EmailsForCollection(successful, cs, c), stamp)
      ELSE database[c] ]

\* main() step 4
MarkProcessed ==
  /\ pc = "mark"
  /\ IF successful_emails = <<>>
     THEN UNCHANGED <<db, db_failures, db_writes, client_log>>
     ELSE \E fail_at \in {0} \cup CollectionsToUpdate(successful_emails, contacts) :
            /\ client_log' = CloseInFinally(
                               OpenClient(client_log, "mark_contacts_as_processed"),
                               "mark_contacts_as_processed", fail_at # 0)
            /\ db' = mark_contacts_as_processed(db, successful_emails, contacts, run, fail_at)
            /\ db_failures' = IF fail_at = 0 THEN db_failures
                              ELSE db_failures \cup {"update_many"}
            /\ db_writes' = db_writes + Cardinality(
                 { k \in CollectionsToUpdate(successful_emails, contacts) :
                     fail_at = 0 \/ k <= fail_at })
  /\ pc' = "handle"
  /\ UNCHANGED <<failed_collection, today, run, limit, contacts, mailerlite_data,
                 invalid_emails, requests_list, batch_start, successful_emails,
                 failed_emails, successful_by_group, email_to_contact, queried,
                 batches_sent, item_ok, ok_before, db_at_start, insert_failed,
                 inserted, delete_issued, removed, prev_exported,
                 answers_malformed, call, returned>>

(***************************************************************************)
(* handle_failed_contacts                                                  *)
(***************************************************************************)
\* the last contact of cs with this e-mail
LastContactWith(cs, email) ==
  cs[CHOOSE j \in 1..Len(cs) :
       /\ cs[j].email = email
       /\ \A q \in (j + 1)..Len(cs) : cs[q].email # email]

\* email_to_contact.items(): one entry per e-mail of failed, in the order in which the
\* e-mails first occur in cs, each with the last contact that has the e-mail
RECURSIVE EmailToContact(_, _, _)
EmailToContact(failed, cs, k) ==
  IF k > Len(cs) THEN <<>>
  ELSE IF /\ InSeq(cs[k].email, failed)
          /\ \A q \in 1..(k - 1) : cs[q].email # cs[k].email
       THEN <<LastContactWith(cs, cs[k].email)>> \o EmailToContact(failed, cs, k + 1)
       ELSE EmailToContact(failed, cs, k + 1)

\* the contact with failed_at and failure_reason, as inserted into db["failed"]
FailedDocument(contact, stamp) ==
  [ id |-> contact.id, email |-> contact.email, show_date |-> contact.show_date,
    venue |-> contact.venue, added |-> contact.added,
    mailerlite_added_date |-> contact.mailerlite_added_date, source |-> contact.source,
    failed_at |-> stamp, failure_reason |-> "mailerlite_import_failed" ]

\* the document delete_one({"email": email}) removes: the first match, if any
FirstMatch(docs, email) ==
  CHOOSE i \in 1..Len(docs) :
    /\ docs[i].email = email
    /\ \A j \in 1..(i - 1) : docs[j].email # email

HasMatch(docs, email) == \E i \in 1..Len(docs) : docs[i].email = email

\* source_collection.delete_one({"email": email})
DeleteOne(docs, email) ==
  IF HasMatch(docs, email)
  THEN [ i \in 1..(Len(docs) - 1) |->
           IF i < FirstMatch(docs, email) THEN docs[i] ELSE docs[i + 1] ]
  ELSE docs

\* main() steps 5 (line 582) and the call of line 571: handle_failed_contacts up to
\* its loop; all_failed_emails = invalid_emails + failed_emails
HandleFailedBegin ==
  /\ \/ pc = "handle"
     \/ pc = "handle_invalid"
  /\ LET all_failed_emails == invalid_emails \o failed_emails
         entries == EmailToContact(all_failed_emails, contacts, 1)
     IN /\ email_to_contact' = IF all_failed_emails = <<>> THEN <<>> ELSE entries
        /\ pc' = IF all_failed_emails = <<>> \/ entries = <<>> THEN "done"
                 ELSE "handle_loop"
        /\ client_log' =
             IF all_failed_emails = <<>> THEN client_log
             ELSE IF entries = <<>>
             THEN CloseInFinally(OpenClient(client_log, "handle_failed_contacts"),
                                 "handle_failed_contacts", FALSE)
             ELSE OpenClient(client_log, "handle_failed_contacts")
  /\ UNCHANGED <<db, failed_collection, today, run, limit, contacts, mailerlite_data,
                 invalid_emails, requests_list, batch_start, successful_emails,
                 failed_emails, successful_by_group, queried, batches_sent, item_ok,
                 ok_before, db_at_start, db_failures, db_writes, insert_failed,
                 inserted, delete_issued, removed, prev_exported,
                 answers_malformed, call, returned>>

\* A variant of the except branch that goes on to delete_one after insert_one raised
InsertRaisesThenDeletes(contact) ==
  /\ insert_failed' = insert_failed \cup {contact.id}
  /\ db_failures' = db_failures \cup {"insert_one"}
  /\ delete_issued' = delete_issued \cup {<<contact.source, contact.email>>}
  /\ db' = [db EXCEPT ![contact.source] = DeleteOne(@, contact.email)]
  /\ db_writes' = db_writes + 2
  /\ UNCHANGED <<failed_collection, inserted, removed>>

\* failed_collection.insert_one(contact) raises: nothing else is done for the e-mail
InsertRaises(contact) ==
  /\ insert_failed' = insert_failed \cup {contact.id}
  /\ db_failures' = db_failures \cup {"insert_one"}
  /\ db_writes' = db_writes + 1
  /\ UNCHANGED <<db, failed_collection, inserted, delete_issued, removed>>

\* insert_one succeeds and delete_one raises
DeleteRaises(contact) ==
  /\ failed_collection' = failed_collection \cup {FailedDocument(contact, run)}
  /\ inserted' = inserted \cup {contact.id}
  /\ delete_issued' = delete_issued \cup {<<contact.source, contact.email>>}
  /\ db_failures' = db_failures \cup {"delete_one"}
  /\ db_writes' = db_writes + 2
  /\ UNCHANGED <<db, insert_failed, removed>>

\* insert_one and delete_one both succeed
InsertAndDelete(contact) ==
  /\ failed_collection' = failed_collection \cup {FailedDocument(contact, run)}
  /\ inserted' = inserted \cup {contact.id}
  /\ delete_issued' = delete_issued \cup {<<contact.source, contact.email>>}
  /\ db' = [db EXCEPT ![contact.source] = DeleteOne(@, contact.email)]
  /\ removed' = IF HasMatch(db[contact.source], contact.email)
                THEN removed \cup
                     { db[contact.source][FirstMatch(db[contact.source], contact.email)] }
                ELSE removed
  /\ db_writes' = db_writes + 2
  /\ UNCHANGED <<db_failures, insert_failed>>

\* one pass of "for email, contact in email_to_contact.items()"; after the last one
\* handle_failed_contacts and main() return. insert_one raises DuplicateKeyError when
\* db["failed"] already holds a document with the contact's _id
HandleFailedStep ==
  /\ pc = "handle_loop"
  /\ LET contact == Head(email_to_contact) IN
       \/ InsertRaises(contact)
       \/ /\ \A d \in failed_collection : d.id # contact.id
          /\ DeleteRaises(contact)
       \/ /\ \A d \in failed_collection : d.id # contact.id
          /\ InsertAndDelete(contact)
  /\ email_to_contact' = Tail(email_to_contact)
  /\ pc' = IF Tail(email_to_contact) = <<>> THEN "done" ELSE "handle_loop"
  /\ client_log' = IF Tail(email_to_contact) = <<>>
                   THEN CloseInFinally(client_log, "handle_failed_contacts", FALSE)
                   ELSE client_log
  /\ UNCHANGED <<today, run, limit, contacts, mailerlite_data, invalid_emails,
                 requests_list, batch_start, successful_emails, failed_emails,
                 successful_by_group, queried, batches_sent, item_ok, ok_before,
                 db_at_start, prev_exported, answers_malformed, call, returned>>

(***************************************************************************)
(* Specifications                                                          *)
(***************************************************************************)
Init == InitWith(PipelinePool)

Next ==
  \/ \E lim \in PipelineLimits : GetContacts(lim)
  \/ Convert
  \/ BuildRequestList
  \/ UploadBatch
  \/ MarkProcessed
  \/ HandleFailedBegin
  \/ HandleFailedStep

\* runs of main(), one after the other
Spec == Init /\ [][Next]_vars

\* get_contacts_to_process alone, over documents of every kind
InitFilter == InitWith(FilterPool)

NextFilter == \E lim \in FilterLimits : GetContacts(lim)

SpecFilter == InitFilter /\ [][NextFilter]_vars

\* main() from step 2 to the return of batch_add_contacts_to_mailerlite, started
\* from what get_contacts_to_process returned in a first run without limit
InitUpload ==
  /\ db \in Databases(UploadPool, MaxUploads)
  /\ failed_collection = {}
  /\ today \in TodayPool
  /\ contacts = get_contacts_to_process(db, <<>>, today, 0).contacts
  /\ contacts # <<>>
  /\ pc = "convert"
  /\ run = 1
  /\ limit = <<>>
  /\ mailerlite_data = <<>>
  /\ invalid_emails = <<>>
  /\ requests_list = <<>>
  /\ batch_start = 0
  /\ successful_emails = <<>>
  /\ failed_emails = <<>>
  /\ successful_by_group = <<>>
  /\ email_to_contact = <<>>
  /\ queried = Range(MONGO_COLLECTIONS)
  /\ batches_sent = <<>>
  /\ item_ok = {}
  /\ ok_before = {}
  /\ db_at_start = db
  /\ db_failures = {}
  /\ db_writes = 0
  /\ insert_failed = {}
  /\ inserted = {}
  /\ delete_issued = {}
  /\ removed = {}
  /\ prev_exported = FALSE
  /\ answers_malformed = FALSE
  /\ client_log = CloseInFinally(OpenClient(<<>>, "get_contacts_to_process"),
                                 "get_contacts_to_process", FALSE)
  /\ call = NoCall
  /\ returned = <<>>

NextUpload ==
  \/ Convert
  \/ BuildRequestList
  \/ UploadBatch

SpecUpload == InitUpload /\ [][NextUpload]_vars

(***************************************************************************)
(* Properties                                                              *)
(***************************************************************************)
\* the document with this _id in a collection of a database, if it is there
Present(database, cname, id) == \E d \in Range(database[cname]) : d.id = id

DocumentOf(database, cname, id) == CHOOSE d \in Range(database[cname]) : d.id = id

\* C2: in handle_failed_contacts, when insert_one raises for the contact of a failed
\* e-mail, no delete_one is issued on its source collection for that e-mail and the
\* original document is still in its source collection.
C2_NoDeleteAfterFailedInsert ==
  \A c \in Range(contacts) :
    c.id \in insert_failed =>
      /\ <<c.source, c.email>> \notin delete_issued
      /\ Present(db, c.source, c.id)

\* C2 witness: handle_failed_contacts has returned; one contact's insert raised
\* while the document of another failed e-mail was moved and deleted.
C2_Witness ==
  /\ pc = "done"
  /\ insert_failed # {}
  /\ \E c \in Range(contacts) : c.id \in inserted /\ ~Present(db, c.source, c.id)

\* C3: no contact is processed twice: a document whose upload item the platform
\* answered 200/201 in an earlier run is not selected again by a later run. Stated
\* here for the histories in which no datastore operation raised and every batch
\* was answered with one per-item result per request.
C3_NeverSelectedAgain ==
  (db_failures = {} /\ ~answers_malformed) => \A c \in Range(contacts) : c.id \notin ok_before

\* C4: at the end of a run in which no datastore operation raised and every batch
\* was answered with one per-item result per request, every selected contact whose
\* own upload item was answered 200/201 is exported (flag true, export timestamp
\* set) on its own document in its own collection.
C4_AcceptedAreExported ==
  (pc = "done" /\ db_failures = {} /\ ~answers_malformed) =>
    \A c \in Range(contacts) :
      c.id \in item_ok =>
        /\ Present(db, c.source, c.id)
        /\ DocumentOf(db, c.source, c.id).added = "true"
        /\ DocumentOf(db, c.source, c.id).mailerlite_added_date # 0

\* C5: every document that handle_failed_contacts removed from a source collection
\* has a copy (the same _id) in the "failed" collection.
C5_RemovedAreQuarantined ==
  \A d \in removed : \E q \in failed_collection : q.id = d.id

\* C6: after handle_failed_contacts returns, every contact whose copy was inserted
\* into "failed" is absent from its source collection. Stated here for the
\* histories in which no datastore operation raised.
C6_QuarantinedAreGone ==
  (pc = "done" /\ db_failures = {}) =>
    \A c \in Range(contacts) : c.id \in inserted => ~Present(db, c.source, c.id)

\* C7: a document whose show date cannot be parsed (and that is not exported) is
\* never selected and is left as it was by the whole run: at the end of the run it
\* is still in its collection, with the same fields.
C7_UnparseableUntouched ==
  \A cname \in DOMAIN db_at_start :
    \A d \in Range(db_at_start[cname]) :
      (d.added # "true" /\ ShowDateParsed(ShowDateOf(d), today.y) = NoDate) =>
        /\ \A c \in Range(contacts) : c.id # d.id
        /\ pc = "done" => d \in Range(db[cname])

AllExported(database) ==
  \A cname \in DOMAIN database : \A d \in Range(database[cname]) : d.added = "true"

\* C9 as claimed: when the run before selected contacts and left every one of them
\* exported, the next run selects no contact, posts no batch and writes nothing.
C9_NextRunSelectsNothing ==
  prev_exported => (contacts = <<>> /\ batches_sent = <<>> /\ db_writes = 0)

\* C9 as amended: a run that starts with every document of the source collections
\* exported selects no contact, posts no batch and writes nothing to the datastore.
C9_NothingLeftToSelect ==
  (run >= 1 /\ AllExported(db_at_start)) =>
    (contacts = <<>> /\ batches_sent = <<>> /\ db_writes = 0 /\ db = db_at_start)

\* C9 witness: a second run has ended, after a run whose accepted contacts were all
\* marked exported, with nothing but exported documents in the collections.
C9_Witness ==
  /\ run = 2
  /\ pc = "done"
  /\ ok_before # {}
  /\ \E cname \in DOMAIN db : db[cname] # <<>>
  /\ AllExported(db_at_start)

\* C1: when batch_add_contacts_to_mailerlite returns, every e-mail of the request
\* list is in exactly one of successful_emails and failed_emails.
C1_ExactlyOneList ==
  pc = "mark" =>
    \A r \in Range(requests_list) :
      InSeq(r.email, successful_emails) # InSeq(r.email, failed_emails)

\* C10: when batch_add_contacts_to_mailerlite returns, every e-mail of a batch that
\* ended in an HTTP status other than 200, or in an exception raised before any
\* per-item result was read (requests.post raised), is in failed_emails and not in
\* successful_emails.
C10_FailedBatchAllFailed ==
  pc = "mark" =>
    \A b \in Range(batches_sent) :
      (b.kind = "http_error" \/ (b.kind = "exception" /\ b.tracked = 0)) =>
        \A e \in Range(b.emails) :
          InSeq(e, failed_emails) /\ ~InSeq(e, successful_emails)

\* the documents of a database, each with its collection
AllDocuments(database) ==
  UNION { { [doc |-> d, cname |-> c] : d \in Range(database[c]) } : c \in DOMAIN database }

SelectedIds == { c.id : c \in Range(contacts) }

\* the date the document's show date resolves to is strictly before today
ResolvedBeforeToday(d) ==
  /\ ShowDateParsed(IF d.show_date = Missing THEN EmptyStr ELSE d.show_date, today.y) # NoDate
  /\ DateBefore(ShowDateParsed(IF d.show_date = Missing THEN EmptyStr ELSE d.show_date,
                               today.y), today)

EmailPresent(d) ==
  /\ d.email # Missing
  /\ d.email # <<>>
  /\ d.email # <<"n", "o", "n", "e">>
  /\ d.email # <<"n", "u", "l", "l">>

C11_InvalidAreQuarantined ==
  (pc = "done" /\ db_failures = {}) =>
    \A c \in Range(contacts) :
      ~is_valid_email(c.email) =>
        /\ InSeq(c.email, invalid_emails)
        /\ \A b \in Range(batches_sent) : ~InSeq(c.id, b.ids)
        /\ \E q \in failed_collection : q.id = c.id
        /\ ~Present(db, c.source, c.id)

\* C12: when a limit was given to get_contacts_to_process, it returns at most that
\* many contacts, and a collection is queried only while the contacts of the
\* collections before it are fewer than the limit.
C12_AtMostLimit ==
  (run >= 1 /\ limit # <<>>) =>
    /\ Len(contacts) <= limit[1]
    /\ \A k \in 2..Len(MONGO_COLLECTIONS) :
         MONGO_COLLECTIONS[k] \in queried =>
           Cardinality({ i \in 1..Len(contacts) :
                           \E j \in 1..(k - 1) : contacts[i].source = MONGO_COLLECTIONS[j] })
             < limit[1]

\* the collections that hold a document get_contacts_to_process selects on that day
CollectionsWithEligible(database, day) ==
  { c \in Range(MONGO_COLLECTIONS) :
      \E d \in Range(Find(database[c])) : CompletedShow(d, day) }

\* C13: a datastore failure only costs the collection it happened on. In a step of
\* mark_contacts_as_processed at most one collection that has successful e-mails is
\* left without its update_many; in a step of get_contacts_to_process without limit
\* at most one collection that holds eligible documents has none of them returned.
C13_FailureScoped ==
  [][ /\ (pc = "mark" /\ pc' = "handle") =>
           Cardinality({ k \in CollectionsToUpdate(successful_emails, contacts) :
                           db'[MONGO_COLLECTIONS[k]] #
                             UpdateMany(db[MONGO_COLLECTIONS[k]],
                                        EmailsForCollection(successful_emails, contacts,
                                                            MONGO_COLLECTIONS[k]),
                                        run) }) <= 1
      /\ (run' = run + 1 /\ limit' = <<>>) =>
           Cardinality({ c \in CollectionsWithEligible(db, today) :
                           \A i \in 1..Len(contacts') : contacts'[i].source # c }) <= 1
    ]_vars

(***************************************************************************)
(* The functions called on their own                                       *)
(***************************************************************************)
\* the variables of a run of main()
pipeline_vars ==
  << db, failed_collection, today, pc, run, limit, contacts, mailerlite_data,
     invalid_emails, requests_list, batch_start, successful_emails, failed_emails,
     successful_by_group, email_to_contact, queried, batches_sent, item_ok, ok_before,
     db_at_start, db_failures, db_writes, insert_failed, inserted, delete_issued,
     removed, prev_exported, answers_malformed, client_log >>

\* show dates as the ticketing sources write them
WeekdaySamples == { <<"T", "u", "e", "s", "d", "a", "y">>, <<"F", "r", "i", "d", "a", "y">> }

MonthSamples == { <<"J", "u", "n", "e">>, <<"A", "u", "g", "u", "s", "t">> }

DaySamples == { <<"3", "r", "d">>, <<"3">>, <<"2", "2", "n", "d">>, <<"3", "1", "s", "t">> }

TimeSamples == { <<"7", "P", "M">>, <<"7", ":", "3", "0", "P", "M">> }

YearSamples == { <<"2", "0", "2", "4">>, <<"2", "0", "2", "5">> }

ParseInputs ==
  { w \o <<" ">> \o m \o <<" ">> \o d \o <<" ">> \o t :
      w \in WeekdaySamples, m \in MonthSamples, d \in DaySamples, t \in TimeSamples }
  \cup
  { m \o <<" ">> \o d \o <<",", " ">> \o y \o t :
      m \in MonthSamples, d \in {<<"3">>, <<"1", "3">>}, y \in YearSamples,
      t \in {<<>>, <<" ", "7", ":", "0", "0", " ", "P", "M">>} }
  \cup ShowDateSamples

\* datetime.now().year
CurrentYears == {2024, 2025, 2026}

\* parse_show_date(show_date_str) in the year current_year
ParseShowDate ==
  /\ call = NoCall
  /\ \E s \in ParseInputs, y \in CurrentYears :
       /\ call' = [fn |-> "parse_show_date", show_date_str |-> s, current_year |-> y]
       /\ returned' = parse_show_date(s, y)
  /\ UNCHANGED pipeline_vars

\* str.upper() on a string of the letters of GROUPS
Upper(s) ==
  [ i \in 1..Len(s) |->
      IF s[i] \in Lowers THEN CHOOSE u \in Uppers : UpperToLower[u] = s[i] ELSE s[i] ]

\* venue fields: the keys of GROUPS as they are, in capitals and with a capital
\* first letter, venues that are no key, the empty string and no venue field
VenueInputs ==
  { GROUPS[i].name : i \in 1..Len(GROUPS) }
  \cup { Upper(GROUPS[i].name) : i \in 1..Len(GROUPS) }
  \cup { <<Upper(GROUPS[i].name)[1]>> \o Tail(GROUPS[i].name) : i \in 1..Len(GROUPS) }
  \cup { <<" ">> \o GROUPS[i].name : i \in 1..Len(GROUPS) }
  \cup { VenueTownhouse, VenuePalace, VenueUnknown, EmptyStr, Missing }

\* the requests batch_add_contacts_to_mailerlite builds for the mailerlite_data
\* that convert_to_mailerlite_format returns for one contact
BuildUploadRequests ==
  /\ call = NoCall
  /\ \E venue \in VenueInputs, email \in {EmailA, EmailB, EmailNotAnEmail},
        show_date \in {DatePast, DateIso} :
       LET contact == [ id |-> 1, email |-> email, show_date |-> show_date,
                        venue |-> venue, added |-> "unset",
                        mailerlite_added_date |-> 0, source |-> MONGO_COLLECTIONS[1] ]
       IN /\ call' = [fn |-> "build_requests", contact |-> contact]
          /\ returned' =
               BuildRequests(
                 convert_to_mailerlite_format(<<contact>>, 1, <<>>, <<>>).mailerlite_data, 1)
  /\ UNCHANGED pipeline_vars

\* the contacts convert_to_mailerlite_format is called with: valid and invalid
\* e-mails and contacts without one, venues that differ in case only and contacts
\* without a venue field
ConvertPool ==
  [ emails |-> {EmailA, EmailB, EmailNotAnEmail, Missing},
    dates  |-> {DatePast},
    venues |-> {VenueTownhouse, Lower(VenueTownhouse), Missing},
    added  |-> {"unset"} ]

\* convert_to_mailerlite_format(contacts) for a list of at most MaxConverted contacts
ConvertContacts ==
  /\ call = NoCall
  /\ \E shapes \in SeqsUpTo(DocShapes(ConvertPool), MaxConverted) :
       LET docs == WithIds(shapes, 0)
           cs == [ i \in 1..Len(docs) |-> AsContact(docs[i], MONGO_COLLECTIONS[1]) ]
       IN /\ call' = [fn |-> "convert_to_mailerlite_format", contacts |-> cs]
          /\ returned' = convert_to_mailerlite_format(cs, 1, <<>>, <<>>)
  /\ UNCHANGED pipeline_vars

InitCalls ==
  /\ db = [c \in Range(MONGO_COLLECTIONS) |-> <<>>]
  /\ failed_collection = {}
  /\ today \in TodayPool
  /\ pc = "idle"
  /\ run = 0
  /\ limit = <<>>
  /\ contacts = <<>>
  /\ mailerlite_data = <<>>
  /\ invalid_emails = <<>>
  /\ requests_list = <<>>
  /\ batch_start = 0
  /\ successful_emails = <<>>
  /\ failed_emails = <<>>
  /\ successful_by_group = <<>>
  /\ email_to_contact = <<>>
  /\ queried = {}
  /\ batches_sent = <<>>
  /\ item_ok = {}
  /\ ok_before = {}
  /\ db_at_start = db
  /\ db_failures = {}
  /\ db_writes = 0
  /\ insert_failed = {}
  /\ inserted = {}
  /\ delete_issued = {}
  /\ removed = {}
  /\ prev_exported = FALSE
  /\ answers_malformed = FALSE
  /\ client_log = <<>>
  /\ call = NoCall
  /\ returned = <<>>

NextCalls ==
  \/ ParseShowDate
  \/ BuildUploadRequests
  \/ ConvertContacts

SpecCalls == InitCalls /\ [][NextCalls]_vars

\* C14: parse_show_date("Tuesday June 3rd 7PM") is June 3 of the current year, and
\* parse_show_date("June 3, 2024") is 2024-06-03 in every current year.
C14_OrdinalAndExplicitYear ==
  call.fn = "parse_show_date" =>
    /\ call.show_date_str =
         <<"T", "u", "e", "s", "d", "a", "y", " ", "J", "u", "n", "e", " ", "3", "r", "d",
           " ", "7", "P", "M">>
         => returned = [y |-> call.current_year, m |-> 6, d |-> 3]
    /\ call.show_date_str = <<"J", "u", "n", "e", " ", "3", ",", " ", "2", "0", "2", "4">>
         => returned = [y |-> 2024, m |-> 6, d |-> 3]

\* C15: get_contacts_to_process returns no contact whose e-mail is absent or is, in
\* any letter case, one of "", "none", "null".
C15_SentinelsNeverReturned ==
  \A c \in Range(contacts) :
    c.email # Missing /\ Lower(c.email) \notin SentinelsLower

\* C16: every request built for a contact with a valid e-mail carries exactly one
\* group id: the id of the GROUPS key equal to the venue in lower case, and the id of
\* "uncategorized" when the venue is absent, empty or no key of GROUPS.
C16_OneGroupPerRequest ==
  (call.fn = "build_requests" /\ is_valid_email(call.contact.email)) =>
    /\ Len(returned) = 1
    /\ Len(returned[1].groups) = 1
    /\ LET venue == call.contact.venue
           named == venue \notin {Missing, EmptyStr}
       IN /\ \A i \in 1..Len(GROUPS) :
               (named /\ Lower(venue) = GROUPS[i].name) =>
                 returned[1].groups[1] = GROUPS[i].id
          /\ (~named \/ \A i \in 1..Len(GROUPS) : Lower(venue) # GROUPS[i].name) =>
               returned[1].groups[1] = "143572290783675542"

\* C16 witness: the request built for a contact of venue "Townhouse" carries the
\* group id of "townhouse".
C16_Witness ==
  /\ call.fn = "build_requests"
  /\ call.contact.venue = VenueTownhouse
  /\ Len(returned) = 1
  /\ returned[1].groups = <<"143572270449690387">>

\* the contact's e-mail is in none of the lists given to mark_contacts_as_processed
\* and handle_failed_contacts
InNeitherSet(c) ==
  /\ ~InSeq(c.email, successful_emails)
  /\ ~InSeq(c.email, invalid_emails)
  /\ ~InSeq(c.email, failed_emails)

\* C17: at the end of a run, a selected contact whose e-mail is neither in
\* successful_emails nor in the failed e-mails (invalid_emails + failed_emails) is in
\* its source collection exactly as it was when the run started, and was not
\* inserted into "failed" by this run.
C17_NeitherSetUntouched ==
  pc = "done" =>
    \A c \in Range(contacts) :
      InNeitherSet(c) =>
        /\ Present(db, c.source, c.id)
        /\ DocumentOf(db, c.source, c.id) = DocumentOf(db_at_start, c.source, c.id)
        /\ c.id \notin inserted

\* C17 witness: a run has ended in which one contact was marked exported and another
\* contact, of the same collection, was in neither list.
C17_Witness ==
  /\ pc = "done"
  /\ \E c \in Range(contacts) :
       /\ InNeitherSet(c)
       /\ \E o \in Range(contacts) :
            /\ o.source = c.source
            /\ InSeq(o.email, successful_emails)
            /\ Present(db, o.source, o.id)
            /\ DocumentOf(db, o.source, o.id).added = "true"

\* the log is a sequence of MongoClient(...) calls each followed by the close() of
\* the same function, the last one possibly still open
PairedLog(log) ==
  \A i \in 1..Len(log) :
    IF i % 2 = 1
    THEN /\ log[i][2] = "open"
         /\ i + 1 <= Len(log) => log[i + 1] = <<log[i][1], "close">>
    ELSE log[i][2] = "close"

\* C18: get_contacts_to_process, mark_contacts_as_processed and
\* handle_failed_contacts each open at most one client in a run and close it before
\* they return, whether or not a datastore call raised: a client is open only while
\* handle_failed_contacts is in its loop, and none is open between the stages or at
\* the end of the run.
C18_ClientsClosed ==
  /\ PairedLog(client_log)
  /\ \A i, j \in 1..Len(client_log) :
       (i # j /\ client_log[i][2] = "open" /\ client_log[j][2] = "open") =>
         client_log[i][1] # client_log[j][1]
  /\ pc # "handle_loop" => Len(client_log) % 2 = 0
  /\ pc = "handle_loop" =>
       /\ Len(client_log) % 2 = 1
       /\ client_log[Len(client_log)] = <<"handle_failed_contacts", "open">>

\* C18 witness: a first run has ended in which update_many and insert_one raised,
\* after each of the three functions opened and closed its client.
C18_Witness ==
  /\ run = 1
  /\ pc = "done"
  /\ {"update_many", "insert_one"} \subseteq db_failures
  /\ Len(client_log) = 6

(***************************************************************************)
(* The per-item results of a well-formed answer                            *)
(***************************************************************************)
\* the e-mails of a batch at the positions whose code satisfies Test, in batch order
EmailsAnswered(b, Test(_)) ==
  LET at == SelectSeq([k \in 1..Len(b.emails) |-> k], LAMBDA k : Test(b.codes[k]))
  IN [ j \in 1..Len(at) |-> b.emails[at[j]] ]

\* the name of the group a selected contact resolves to: its venue in lower case
\* when that is a key of GROUPS, "uncategorized" otherwise
ResolvedGroupOf(id) ==
  LET c == contacts[CHOOSE i \in 1..Len(contacts) : contacts[i].id = id]
      v == Lower(IF c.venue = Missing \/ c.venue = EmptyStr THEN Uncategorized ELSE c.venue)
  IN IF \E i \in 1..Len(GROUPS) : GROUPS[i].name = v THEN v ELSE Uncategorized

\* the e-mails successful_by_group lists under a name
EmailsUnder(by_group, name) ==
  IF \E i \in 1..Len(by_group) : by_group[i].name = name
  THEN by_group[CHOOSE i \in 1..Len(by_group) : by_group[i].name = name].emails
  ELSE <<>>

\* C19: when a batch is answered with status 200 and a list of per-item results as
\* long as the batch, that pass of the loop appends to successful_emails exactly the
\* batch's e-mails at the positions answered 200 or 201, appends the same e-mails to
\* successful_by_group under the name of the group each resolves to, and appends to
\* failed_emails exactly the batch's e-mails at the other positions, all in batch
\* order: no e-mail of another batch is touched.
C19_ResultsByPosition ==
  [][ ( /\ Len(batches_sent') = Len(batches_sent) + 1
        /\ batches_sent'[Len(batches_sent')].kind = "ok"
        /\ Len(batches_sent'[Len(batches_sent')].codes)
             = Len(batches_sent'[Len(batches_sent')].ids) )
      => LET b == batches_sent'[Len(batches_sent')]
             Accepted(code) == code \in {200, 201}
             Rejected(code) == code \notin {200, 201}
             accepted_at == { k \in 1..Len(b.ids) : Accepted(b.codes[k]) }
             names == { GROUPS[i].name : i \in 1..Len(GROUPS) }
                        \cup { successful_by_group'[i].name :
                                 i \in 1..Len(successful_by_group') }
         IN /\ successful_emails' = successful_emails \o EmailsAnswered(b, Accepted)
            /\ failed_emails' = failed_emails \o EmailsAnswered(b, Rejected)
            /\ \A name \in names :
                 EmailsUnder(successful_by_group', name)
                   = EmailsUnder(successful_by_group, name)
                       \o EmailsAnswered(
                            [ emails |-> b.emails,
                              codes  |-> [ k \in 1..Len(b.ids) |->
                                             IF /\ k \in accepted_at
                                                /\ ResolvedGroupOf(b.ids[k]) = name
                                             THEN 200 ELSE 422 ] ],
                            Accepted)
    ]_vars

\* C19 witness: the second batch of a run was answered with status 200 and one
\* result per request, after a first batch of two requests of which one was
\* accepted with 201 and the other rejected.
C19_Witness ==
  /\ Len(batches_sent) = 2
  /\ batches_sent[1].kind = "ok"
  /\ batches_sent[1].codes \in { <<201, 422>>, <<422, 201>> }
  /\ batches_sent[2].kind = "ok"
  /\ batches_sent[2].codes = <<200>>
  /\ Len(successful_emails) = 2
  /\ Len(failed_emails) = 1

\* the ids of the requests submitted so far, batch after batch
RECURSIVE SubmittedIds(_, _)
SubmittedIds(sent, k) ==
  IF k > Len(sent) THEN <<>> ELSE sent[k].ids \o SubmittedIds(sent, k + 1)

\* C20: the batches submitted so far are consecutive pieces of requests_list, each
\* of one to BatchSize requests, in list order, so that together they are the
\* beginning of requests_list with no request left out or repeated; while the loop
\* runs some request is still to be submitted, and when it has ended the batches
\* together are the whole list, whatever the outcome of each batch was.
C20_EachRequestInOneBatch ==
  pc \in {"upload", "mark"} =>
    LET submitted == SubmittedIds(batches_sent, 1) IN
    /\ \A k \in 1..Len(batches_sent) :
         /\ Len(batches_sent[k].ids) >= 1
         /\ Len(batches_sent[k].ids) <= BatchSize
    /\ Len(submitted) <= Len(requests_list)
    /\ \A j \in 1..Len(submitted) : submitted[j] = requests_list[j].id
    /\ \A j, q \in 1..Len(submitted) : j # q => submitted[j] # submitted[q]
    /\ pc = "upload" => Len(submitted) < Len(requests_list)
    /\ pc = "mark" => Len(submitted) = Len(requests_list)

\* C20 witness: the loop has ended after two batches, the first of BatchSize
\* requests and failed as a whole, the second submitted all the same.
C20_Witness ==
  /\ pc = "mark"
  /\ Len(batches_sent) = 2
  /\ batches_sent[1].kind \in {"http_error", "exception"}
  /\ Len(batches_sent[1].ids) = BatchSize
  /\ Len(batches_sent[2].ids) = 1
  /\ Len(requests_list) = BatchSize + 1

\* the key convert_to_mailerlite_format files a contact under: its venue as it is
\* written, "uncategorized" when it has no venue field
VenueAsWritten(contact) ==
  IF contact.venue = Missing THEN Uncategorized ELSE contact.venue

\* the contacts of a list with a valid e-mail and that key, in the order of the list
ValidWithVenue(cs, venue) ==
  SelectSeq(cs, LAMBDA c : is_valid_email(c.email) /\ VenueAsWritten(c) = venue)

\* C21: convert_to_mailerlite_format(contacts) returns in invalid_emails the
\* e-mails of the contacts that fail is_valid_email, in input order, and in
\* mailerlite_data one non-empty list per venue as it is written, holding the
\* contacts with a valid e-mail and that venue in input order; every contact has
\* exactly one entry, in one of the two and never in both.
C21_ConvertPartitions ==
  call.fn = "convert_to_mailerlite_format" =>
    LET cs == call.contacts
        data == returned.mailerlite_data
        rejected == SelectSeq(cs, LAMBDA c : ~is_valid_email(c.email))
        IdsIn(k) == { data[k].items[j].id : j \in 1..Len(data[k].items) }
    IN /\ returned.invalid_emails = [ j \in 1..Len(rejected) |-> rejected[j].email ]
       /\ \A k, q \in 1..Len(data) : k # q => data[k].venue # data[q].venue
       /\ { data[k].venue : k \in 1..Len(data) }
            = { VenueAsWritten(cs[i]) : i \in { n \in 1..Len(cs) : is_valid_email(cs[n].email) } }
       /\ \A k \in 1..Len(data) :
            LET expected == ValidWithVenue(cs, data[k].venue) IN
            /\ Len(data[k].items) = Len(expected)
            /\ \A j \in 1..Len(expected) :
                 /\ data[k].items[j].id = expected[j].id
                 /\ data[k].items[j].email = expected[j].email
       /\ \A i \in 1..Len(cs) :
            Cardinality({ k \in 1..Len(data) : cs[i].id \in IdsIn(k) })
              = IF is_valid_email(cs[i].email) THEN 1 ELSE 0

\* C21 witness: a call with three contacts: two with a valid e-mail and the same
\* venue around one without an e-mail, so that the venue's list has two entries.
C21_Witness ==
  /\ call.fn = "convert_to_mailerlite_format"
  /\ Len(call.contacts) = 3
  /\ Len(returned.invalid_emails) = 1
  /\ Len(returned.mailerlite_data) = 1
  /\ Len(returned.mailerlite_data[1].items) = 2
  /\ returned.mailerlite_data[1].items[1].id = 1
  /\ returned.mailerlite_data[1].items[2].id = 3

\* C22: within one run no document is marked exported by mark_contacts_as_processed
\* and then copied to "failed" and deleted by handle_failed_contacts, also when
\* several selected contacts carry the same e-mail and their items were answered
\* differently. Stated for the runs in which every batch answered was answered with
\* one result per request, so that only such contacts can bring an e-mail into both
\* successful_emails and failed_emails.
C22_MarkedOrQuarantined ==
  ~answers_malformed =>
    \A d \in removed :
      ~ /\ d.added = "true"
        /\ d.mailerlite_added_date = run
        /\ d.id \in inserted

=============================================================================
